---- MODULE Spec2Model ----
(***************************************************************************)
(* three.path: PathPointList (key points -> path samples), the four vertex  *)
(* data generators (ribbon, circular tube, two rectangular tubes) and the   *)
(* growable buffers of PathGeometry.                                        *)
(*                                                                          *)
(* Numbers.  Key points are integer points of the plane z = 0.  Lengths     *)
(* and the points of a rounding curve are fixed-point numbers of            *)
(* resolution one unit, rounded towards zero; unit vectors and widthScale   *)
(* are fixed-point numbers in thousandths.  Progress values and the dist    *)
(* of an interpolated sample are exact fractions <<numerator, denominator>>.*)
(* Of the orientation of a PathPoint its dir is kept; up and right, which   *)
(* the code assigns and copies in the same statements as dir, are not.      *)
(***************************************************************************)
EXTENDS Integers, Sequences, FiniteSets, TLC

VARIABLES
    callerPoints, \* the caller's array of key points, as the last set left it
    setCall,     \* the arguments of the last call of set
    array,       \* PathPointList.array: the PathPoint objects, stale ones included
    count,       \* PathPointList.count
    geom,        \* the geometry object (NoGeom before construction)
    call,        \* the arguments of the running / last generator call
    vertexData,  \* what that call returned
    pc           \* "idle", or "spin" inside a growth loop that cannot grow

vars == <<callerPoints, setCall, array, count, geom, call, vertexData, pc>>

\* ------------------------------------------------------------------ bounds

MaxPts == 3

\* ------------------------------------------------------------- arithmetic

Abs(x) == IF x < 0 THEN -x ELSE x

Min(a, b) == IF a < b THEN a ELSE b

Max(a, b) == IF a > b THEN a ELSE b

Sign(x) == IF x < 0 THEN -1 ELSE IF x > 0 THEN 1 ELSE 0

\* division rounding towards zero
Quot(a, b) == Sign(a) * Sign(b) * (Abs(a) \div Abs(b))

RECURSIVE SqrtBetween(_, _, _)
SqrtBetween(n, lo, hi) ==
    IF lo >= hi THEN lo
    ELSE LET mid == (lo + hi + 1) \div 2
         IN  IF mid * mid <= n THEN SqrtBetween(n, mid, hi)
             ELSE SqrtBetween(n, lo, mid - 1)

\* Math.sqrt, rounded down
ISqrt(n) == SqrtBetween(n, 0, Min(n, 46340))

RECURSIVE Gcd(_, _)
Gcd(a, b) == IF b = 0 THEN a ELSE Gcd(b, a % b)

\* a fraction in lowest terms with a positive denominator
Frac(n, d) ==
    LET g == Gcd(Abs(n), Abs(d))
    IN  <<Sign(d) * (n \div g), Abs(d) \div g>>

FracOfInt(n) == <<n, 1>>

FracLess(p, q) == p[1] * q[2] < q[1] * p[2]

FracMul(p, q) == Frac(p[1] * q[1], p[2] * q[2])

FracAdd(p, q) == Frac(p[1] * q[2] + q[1] * p[2], p[2] * q[2])

FracSub(p, q) == Frac(p[1] * q[2] - q[1] * p[2], p[2] * q[2])

\* p / q for q # 0
FracDiv(p, q) == Frac(p[1] * q[2], p[2] * q[1])

\* ---------------------------------------------------------------- Vector3

VSub(a, b) == <<a[1] - b[1], a[2] - b[2]>>

VAdd(a, b) == <<a[1] + b[1], a[2] + b[2]>>

VDot(a, b) == a[1] * b[1] + a[2] * b[2]

\* Vector3.length (a vector along an axis needs no square root)
VLength(v) ==
    IF v[1] = 0 THEN Abs(v[2])
    ELSE IF v[2] = 0 THEN Abs(v[1])
    ELSE ISqrt(VDot(v, v))

\* Vector3.normalize, in thousandths; the zero vector stays zero
VDivide(v, len100) ==
    IF len100 = 0 THEN <<0, 0>>
    ELSE <<Quot(v[1] * 100000, len100), Quot(v[2] * 100000, len100)>>

VNormalize(v) ==
    IF v[1] = 0 \/ v[2] = 0 THEN <<1000 * Sign(v[1]), 1000 * Sign(v[2])>>
    ELSE VDivide(v, ISqrt(VDot(v, v) * 10000))

\* unit vector (thousandths) times a length
VScaleUnit(u, len) == <<Quot(u[1] * len, 1000), Quot(u[2] * len, 1000)>>

\* Vector3.normalize of a vector given in thousandths
VNormalizeUnit(u) ==
    IF u[1] = 0 \/ u[2] = 0 THEN <<1000 * Sign(u[1]), 1000 * Sign(u[2])>>
    ELSE <<Quot(u[1] * 1000, ISqrt(VDot(u, u))), Quot(u[2] * 1000, ISqrt(VDot(u, u)))>>

\* dot product of two unit vectors, in thousandths
UnitDot(u, w) == Quot(VDot(u, w), 1000)

\* -------------------------------------------------------------- PathPoint

MaxWidthScale == 1415

PathPoint ==
    [pos |-> <<0, 0>>, dir |-> <<0, 0>>, dist |-> 0, widthScale |-> 1000, sharp |-> FALSE]

\* ---------------------------------------------------------- PathPointList

\* this.array with the PathPoint at 0-based index i replaced (or appended)
PutPoint(arr, i, p) ==
    IF i + 1 <= Len(arr) THEN [arr EXCEPT ![i + 1] = p] ELSE Append(arr, p)

\* a list is the pair of its array and its count
MkList(arr, cnt) == [array |-> arr, count |-> cnt]

\* _getByIndex: the PathPoint object at index, made if there is none
GetByIndex(arr, index) ==
    IF index + 1 <= Len(arr) THEN arr[index + 1] ELSE PathPoint

ListStart(l, current, next) ==
    MkList(PutPoint(l.array, 0,
                    [GetByIndex(l.array, 0)
                        EXCEPT !.pos = current,
                               !.dir = VNormalize(VSub(next, current)),
                               !.dist = 0,
                               !.widthScale = 1000, !.sharp = FALSE]),
           1)

\* _end leaving widthScale and sharp as it finds them
ListEndKeepWidth(l, current) ==
    MkList(PutPoint(l.array, l.count,
                    [GetByIndex(l.array, l.count)
                        EXCEPT !.pos = current,
                               !.dir = VNormalize(VSub(current, l.array[l.count].pos)),
                               !.dist = l.array[l.count].dist
                                        + VLength(VSub(current, l.array[l.count].pos))]),
           l.count + 1)

\* _end with the length of the last step for dist
ListEndFromZero(l, current) ==
    MkList(PutPoint(l.array, l.count,
                    [GetByIndex(l.array, l.count)
                        EXCEPT !.pos = current,
                               !.dir = VNormalize(VSub(current, l.array[l.count].pos)),
                               !.dist = VLength(VSub(current, l.array[l.count].pos)),
                               !.widthScale = 1000, !.sharp = FALSE]),
           l.count + 1)

ListEnd(l, current) ==
    MkList(PutPoint(l.array, l.count,
                    [GetByIndex(l.array, l.count)
                        EXCEPT !.pos = current,
                               !.dir = VNormalize(VSub(current, l.array[l.count].pos)),
                               !.dist = l.array[l.count].dist
                                        + VLength(VSub(current, l.array[l.count].pos)),
                               !.widthScale = 1000, !.sharp = FALSE]),
           l.count + 1)

\* Math.min(1 / Math.sqrt((1 + _cos) / 2), 1.415) || 1, in thousandths
WidthScaleOf(cos) ==
    IF 1000 + cos < 0 THEN 1000
    ELSE IF 1000 + cos = 0 THEN MaxWidthScale
    ELSE Min(ISqrt(2000000000 \div (1000 + cos)), MaxWidthScale)

\* point.dir of _sharpCorner: 1 - the last dir, 2 - the next dir, else the
\* normalized sum of the two (unit vectors, in thousandths)
CornerDir(lastDir, nextDir, dirType) ==
    IF dirType = 1 THEN lastDir
    ELSE IF dirType = 2 THEN nextDir
    ELSE VNormalizeUnit(VAdd(lastDir, nextDir))

\* _sharpCorner leaving sharp as it finds it unless it is called for a hard corner
PutSharpCornerKeepSharp(l, current, dir, lastDirLength, cos, sharp) ==
    MkList(PutPoint(l.array, l.count,
                    [GetByIndex(l.array, l.count)
                        EXCEPT !.pos = current,
                               !.dir = dir,
                               !.dist = l.array[l.count].dist + lastDirLength,
                               !.widthScale = WidthScaleOf(cos),
                               !.sharp = IF sharp THEN Abs(cos - 1000) > 50 ELSE @]),
           l.count + 1)

\* the assignments of _sharpCorner to the PathPoint at index count, given its
\* dir, the length of lastDir and the _cos of lastDir and nextDir (in
\* thousandths)
PutSharpCorner(l, current, dir, lastDirLength, cos, sharp) ==
    MkList(PutPoint(l.array, l.count,
                    [GetByIndex(l.array, l.count)
                        EXCEPT !.pos = current,
                               !.dir = dir,
                               !.dist = l.array[l.count].dist + lastDirLength,
                               !.widthScale = WidthScaleOf(cos),
                               !.sharp = (Abs(cos - 1000) > 50) /\ sharp]),
           l.count + 1)

ListSharpCorner(l, current, next, dirType, sharp) ==
    PutSharpCorner(l, current,
                   CornerDir(VNormalize(VSub(current, l.array[l.count].pos)),
                             VNormalize(VSub(next, current)), dirType),
                   VLength(VSub(current, l.array[l.count].pos)),
                   UnitDot(VNormalize(VSub(current, l.array[l.count].pos)),
                           VNormalize(VSub(next, current))),
                   sharp)

\* x * 0.999999
Shrink(x) == Quot(x * 999999, 1000000)

\* x / 2 * 0.999999
ShrinkHalf(x) == Quot(x * 999999, 2000000)

\* _getCornerBezierCurve: the control points <<v0, v1, v2>>
GetCornerBezierCurve(last, current, next, cornerRadius, firstCorner) ==
    LET lastDir == VSub(current, last)
        nextDir == VSub(next, current)
        lastDirLength == VLength(lastDir)
        nextDirLength == VLength(nextDir)
        v0Dist == Min(IF firstCorner THEN ShrinkHalf(lastDirLength)
                      ELSE Shrink(lastDirLength),
                      cornerRadius)
        v2Dist == Min(ShrinkHalf(nextDirLength), cornerRadius)
    IN  <<VSub(current, VScaleUnit(VNormalize(lastDir), v0Dist)),
          current,
          VAdd(current, VScaleUnit(VNormalize(nextDir), v2Dist))>>

\* QuadraticBezierCurve3.getPoint(d / divisions)
BezierPoint(curve, d, divisions) ==
    LET w0 == (divisions - d) * (divisions - d)
        w1 == 2 * d * (divisions - d)
        w2 == d * d
        n2 == divisions * divisions
    IN  <<Quot(w0 * curve[1][1] + w1 * curve[2][1] + w2 * curve[3][1], n2),
          Quot(w0 * curve[1][2] + w1 * curve[2][2] + w2 * curve[3][2], n2)>>

\* curve.getPoints(divisions): a function on 0 .. divisions
GetPoints(curve, divisions) ==
    [d \in 0 .. divisions |-> BezierPoint(curve, d, divisions)]

\* the loop of _corner over f = from .. cornerSplit - 1 (l.count = 0 never
\* holds in it: reading l.count makes TLC evaluate l before it descends)
RECURSIVE CornerLoop(_, _, _, _)
CornerLoop(l, samplerPoints, f, cornerSplit) ==
    IF f >= cornerSplit \/ l.count = 0 THEN l
    ELSE CornerLoop(ListSharpCorner(l, samplerPoints[f], samplerPoints[f + 1],
                                    IF f = 0 THEN 1 ELSE 0, FALSE),
                    samplerPoints, f + 1, cornerSplit)

\* the rounded branch without the sample that follows the loop
RoundCornerLoopOnly(l, samplerPoints, next, cornerSplit) ==
    CornerLoop(l, samplerPoints, 0, cornerSplit)

\* the rounded branch of _corner, given curve.getPoints(cornerSplit)
RoundCorner(l, samplerPoints, next, cornerSplit) ==
    IF samplerPoints[cornerSplit] # next
    THEN ListSharpCorner(CornerLoop(l, samplerPoints, 0, cornerSplit),
                         samplerPoints[cornerSplit], next, 2, FALSE)
    ELSE CornerLoop(l, samplerPoints, 0, cornerSplit)

ListCorner(l, current, next, cornerRadius, cornerSplit) ==
    IF cornerRadius > 0 /\ cornerSplit > 0
    THEN RoundCorner(l,
                     GetPoints(GetCornerBezierCurve(l.array[l.count].pos, current, next,
                                                    cornerRadius, (l.count - 1) = 0),
                               cornerSplit),
                     next, cornerSplit)
    ELSE ListSharpCorner(l, current, next, 0, TRUE)

\* PathPoint.copy: everything but sharp
CopyPoint(target, source) ==
    [target EXCEPT !.pos = source.pos, !.dir = source.dir, !.dist = source.dist,
                   !.widthScale = source.widthScale]

\* set without the fix of the start point
FixStartKeep(l) == l

\* "Fix start point": array[0] takes the last sample's fields and keeps its dist
FixStart(l) ==
    MkList([l.array EXCEPT ![1] = [CopyPoint(@, l.array[l.count])
                                       EXCEPT !.dist = l.array[1].dist]],
           l.count)

\* the loop of set over i = from .. l - 1 (0-based i, points is 1-based; the
\* test of l.count, never true here, makes TLC evaluate l before it descends)
RECURSIVE SetLoop(_, _, _, _, _, _)
SetLoop(l, points, i, cornerRadius, cornerSplit, close) ==
    IF i >= Len(points) \/ (i > 0 /\ l.count = 0) THEN l
    ELSE IF i = 0
    THEN SetLoop(ListStart(l, points[1], points[2]),
                 points, i + 1, cornerRadius, cornerSplit, close)
    ELSE IF i = Len(points) - 1
    THEN IF close
         THEN FixStart(ListCorner(l, points[i + 1], points[2], cornerRadius, cornerSplit))
         ELSE ListEnd(l, points[i + 1])
    ELSE SetLoop(ListCorner(l, points[i + 1], points[i + 2], cornerRadius, cornerSplit),
                 points, i + 1, cornerRadius, cornerSplit, close)

\* set without the reset of count on a short point list
ListSetKeep(l, points, cornerRadius, cornerSplit, close) ==
    IF Len(points) < 2 THEN l
    ELSE SetLoop(l,
                 IF close /\ points[1] # points[Len(points)]
                 THEN Append(points, points[1]) ELSE points,
                 0, cornerRadius, cornerSplit, close)

\* PathPointList.set
ListSet(l, points, cornerRadius, cornerSplit, close) ==
    IF Len(points) < 2 THEN MkList(l.array, 0)
    ELSE SetLoop(l,
                 IF close /\ points[1] # points[Len(points)]
                 THEN Append(points, points[1]) ELSE points,
                 0, cornerRadius, cornerSplit, close)

\* PathPointList.distance
Distance(l) == IF l.count > 0 THEN l.array[l.count].dist ELSE 0

\* ------------------------------------------------- vertex data generators
\* The arrays position, normal, uv and uv2 are kept by their lengths (in
\* numbers), indices by its values.  rings records, for every addVertices
\* call in order, the sample it was given.

\* An options object is a record of optional values: <<>> for a property that
\* is not set (undefined), <<v>> for one set to v.
Has(options, key) == options[key] # <<>>

\* options.progress !== undefined ? options.progress : 1
ProgressOf(options) == IF Has(options, "progress") THEN options.progress[1] ELSE <<1, 1>>

EmptyData ==
    [null |-> FALSE, position |-> 0, normal |-> 0, uv |-> 0, uv2 |-> 0,
     indices |-> <<>>, count |-> 0, verticesCount |-> 0, rings |-> <<>>]

\* a generator's return null
NullData == [EmptyData EXCEPT !.null = TRUE]

\* a stored PathPoint as addVertices reads it (dist as a fraction)
SampleOf(p) == [pos |-> p.pos, dir |-> p.dir, dist |-> FracOfInt(p.dist),
                widthScale |-> p.widthScale, sharp |-> p.sharp]

\* a + (b - a) * alpha on fixed-point numbers
LerpInt(a, b, alpha) == a + Quot((b - a) * alpha[1], alpha[2])

\* new PathPoint() followed by lerpPathPoints(p1, p2, alpha)
LerpPathPoints(p1, p2, alpha) ==
    [pos |-> <<LerpInt(p1.pos[1], p2.pos[1], alpha), LerpInt(p1.pos[2], p2.pos[2], alpha)>>,
     dir |-> <<LerpInt(p1.dir[1], p2.dir[1], alpha), LerpInt(p1.dir[2], p2.dir[2], alpha)>>,
     dist |-> FracAdd(FracMul(FracOfInt(p2.dist - p1.dist), alpha), FracOfInt(p1.dist)),
     widthScale |-> LerpInt(p1.widthScale, p2.widthScale, alpha),
     sharp |-> FALSE]

\* an alpha measured from the start of the path instead of from prevPoint
AlphaOfWhole(progressDistance, prevPoint, pathPoint) ==
    FracDiv(progressDistance, FracOfInt(pathPoint.dist))

\* an alpha measured back from pathPoint instead of on from prevPoint
AlphaOfNext(progressDistance, prevPoint, pathPoint) ==
    FracDiv(FracSub(FracOfInt(pathPoint.dist), progressDistance),
            FracOfInt(pathPoint.dist - prevPoint.dist))

\* (progressDistance - prevPoint.dist) / (pathPoint.dist - prevPoint.dist)
AlphaOf(progressDistance, prevPoint, pathPoint) ==
    FracDiv(FracSub(progressDistance, FracOfInt(prevPoint.dist)),
            FracOfInt(pathPoint.dist - prevPoint.dist))

\* the sample the progress loop ends with when array[i] lies beyond progressDistance
TruncatedSample(l, i, progressDistance) ==
    LET prevPoint == l.array[i]
        pathPoint == l.array[i + 1]
    IN  LerpPathPoints(prevPoint, pathPoint, AlphaOf(progressDistance, prevPoint, pathPoint))

\* ---- ribbon: generatePathVertexData

\* addVertices of the ribbon; leftLonger is the outcome of sideOffset > 0
PathAddVertices(d, pathPoint, generateUv2, leftLonger) ==
    LET first == d.position = 0
        sharpCorner == pathPoint.sharp /\ ~first
        ring == Append(d.rings, pathPoint)
    IN  IF sharpCorner
        THEN LET v == d.verticesCount + 6
             IN  [d EXCEPT !.position = @ + 18, !.normal = @ + 18, !.uv = @ + 12,
                           !.uv2 = IF generateUv2 THEN @ + 12 ELSE @,
                           !.verticesCount = v,
                           !.indices = @ \o
                               (IF leftLonger
                                THEN <<v - 6, v - 8, v - 7, v - 6, v - 7, v - 5,
                                       v - 4, v - 6, v - 5, v - 2, v - 4, v - 1>>
                                ELSE <<v - 6, v - 8, v - 7, v - 6, v - 7, v - 5,
                                       v - 6, v - 5, v - 3, v - 2, v - 3, v - 1>>),
                           !.count = @ + 12,
                           !.rings = ring]
        ELSE LET v == d.verticesCount + 2
             IN  [d EXCEPT !.position = @ + 6, !.normal = @ + 6, !.uv = @ + 4,
                           !.uv2 = IF generateUv2 THEN @ + 4 ELSE @,
                           !.verticesCount = v,
                           !.indices = IF first THEN @
                                       ELSE @ \o <<v - 2, v - 4, v - 3, v - 2, v - 3, v - 1>>,
                           !.count = IF first THEN @ ELSE @ + 6,
                           !.rings = ring]

\* an arrow head that adds nothing
PathAddStartNone(d, pathPoint, generateUv2) == d

\* an arrow head whose indices are counted from 1
PathAddStartFromOne(d, pathPoint, generateUv2) ==
    LET v == d.verticesCount + 3
    IN  [d EXCEPT !.position = @ + 9, !.normal = @ + 9, !.uv = @ + 6,
                  !.uv2 = IF generateUv2 THEN @ + 6 ELSE @,
                  !.verticesCount = v,
                  !.indices = @ \o <<v, v - 2, v - 1>>,
                  !.count = @ + 3]

\* addStart: the arrow head
PathAddStart(d, pathPoint, generateUv2) ==
    LET v == d.verticesCount + 3
    IN  [d EXCEPT !.position = @ + 9, !.normal = @ + 9, !.uv = @ + 6,
                  !.uv2 = IF generateUv2 THEN @ + 6 ELSE @,
                  !.verticesCount = v,
                  !.indices = @ \o <<v - 1, v - 3, v - 2>>,
                  !.count = @ + 3]

\* the progress loop of the ribbon from index i on; the result carries the
\* truncated sample (lastPoint) when one was made
RECURSIVE PathLoop(_, _, _, _, _, _)
PathLoop(d, l, i, progressDistance, generateUv2, leftLonger) ==
    IF i >= l.count THEN [data |-> d, hasLast |-> FALSE, lastPoint |-> SampleOf(PathPoint)]
    ELSE LET pathPoint == l.array[i + 1]
         IN  IF FracLess(progressDistance, FracOfInt(pathPoint.dist))
             THEN LET lastPoint == TruncatedSample(l, i, progressDistance)
                  IN  [data |-> PathAddVertices(d, lastPoint, generateUv2, leftLonger),
                       hasLast |-> TRUE, lastPoint |-> lastPoint]
             ELSE PathLoop(PathAddVertices(d, SampleOf(pathPoint), generateUv2, leftLonger),
                           l, i + 1, progressDistance, generateUv2, leftLonger)

\* a ribbon generator that returns null for progressDistance = 0 as the tubes do
GeneratePathVertexDataNull(l, options, generateUv2, leftLonger) ==
    LET progress == ProgressOf(options)
        arrow == IF Has(options, "arrow") THEN options.arrow[1] ELSE TRUE
        totalDistance == Distance(l)
        progressDistance == FracMul(progress, FracOfInt(totalDistance))
    IN  IF progressDistance[1] = 0 THEN NullData
        ELSE LET looped == IF FracLess(<<0, 1>>, progressDistance)
                           THEN PathLoop(EmptyData, l, 0, progressDistance,
                                         generateUv2, leftLonger)
                           ELSE [data |-> EmptyData, hasLast |-> TRUE,
                                 lastPoint |-> SampleOf(l.array[1])]
                 lastPoint == IF looped.hasLast THEN looped.lastPoint
                              ELSE SampleOf(l.array[l.count])
             IN  IF arrow THEN PathAddStart(looped.data, lastPoint, generateUv2)
                 ELSE looped.data

GeneratePathVertexData(l, options, generateUv2, leftLonger) ==
    LET progress == ProgressOf(options)
        arrow == IF Has(options, "arrow") THEN options.arrow[1] ELSE TRUE
        totalDistance == Distance(l)
        progressDistance == FracMul(progress, FracOfInt(totalDistance))
    IN  IF totalDistance = 0 THEN NullData
        ELSE LET looped == IF FracLess(<<0, 1>>, progressDistance)
                           THEN PathLoop(EmptyData, l, 0, progressDistance,
                                         generateUv2, leftLonger)
                           ELSE [data |-> EmptyData, hasLast |-> TRUE,
                                 lastPoint |-> SampleOf(l.array[1])]
                 lastPoint == IF looped.hasLast THEN looped.lastPoint
                              ELSE SampleOf(l.array[l.count])
             IN  IF arrow THEN PathAddStart(looped.data, lastPoint, generateUv2)
                 ELSE looped.data

\* ---- circular tube: generateTubeVertexData$1

\* Math.max(2, options.radialSegments || 8)
RadialSegmentsOf(options) ==
    Max(2, IF Has(options, "radialSegments") /\ options.radialSegments[1] # 0
           THEN options.radialSegments[1] ELSE 8)

\* for (let r = 0; r <= segments; r++): one vertex per pass
RECURSIVE RingVertexLoop(_, _, _, _)
RingVertexLoop(d, r, segments, generateUv2) ==
    IF r > segments THEN d
    ELSE RingVertexLoop([d EXCEPT !.position = @ + 3, !.normal = @ + 3, !.uv = @ + 2,
                                  !.uv2 = IF generateUv2 THEN @ + 2 ELSE @,
                                  !.verticesCount = @ + 1],
                        r + 1, segments, generateUv2)

\* for (let i = 0; i < segments; i++): two triangles per pass
RECURSIVE RingIndexLoop(_, _, _, _, _)
RingIndexLoop(d, i, segments, begin1, begin2) ==
    IF i >= segments THEN d
    ELSE RingIndexLoop([d EXCEPT !.indices = @ \o <<begin2 + i, begin1 + i, begin1 + i + 1,
                                                    begin2 + i, begin1 + i + 1, begin2 + i + 1>>,
                                 !.count = @ + 6],
                       i + 1, segments, begin1, begin2)

\* a ring without the vertex that repeats its first at the seam
TubeAddVerticesNoSeam(d, pathPoint, segments, generateUv2) ==
    LET first == d.position = 0
        pushed == [RingVertexLoop(d, 1, segments, generateUv2)
                       EXCEPT !.rings = Append(@, pathPoint)]
        begin1 == pushed.verticesCount - segments * 2
        begin2 == pushed.verticesCount - segments
    IN  IF ~first THEN RingIndexLoop(pushed, 0, segments, begin1, begin2)
        ELSE pushed

\* addVertices of the circular tube, and with segments = 4 of the 5-vertex rectangle
TubeAddVertices(d, pathPoint, segments, generateUv2) ==
    LET first == d.position = 0
        pushed == [RingVertexLoop(d, 0, segments, generateUv2)
                       EXCEPT !.rings = Append(@, pathPoint)]
        begin1 == pushed.verticesCount - (segments + 1) * 2
        begin2 == pushed.verticesCount - (segments + 1)
    IN  IF ~first THEN RingIndexLoop(pushed, 0, segments, begin1, begin2)
        ELSE pushed

\* the progress loop of the two tubes built on TubeAddVertices
RECURSIVE TubeLoop(_, _, _, _, _, _)
TubeLoop(d, l, i, progressDistance, segments, generateUv2) ==
    IF i >= l.count THEN d
    ELSE LET pathPoint == l.array[i + 1]
         IN  IF FracLess(progressDistance, FracOfInt(pathPoint.dist))
             THEN TubeAddVertices(d, TruncatedSample(l, i, progressDistance),
                                  segments, generateUv2)
             ELSE TubeLoop(TubeAddVertices(d, SampleOf(pathPoint), segments, generateUv2),
                           l, i + 1, progressDistance, segments, generateUv2)

\* the circular tube without its return of null
GenerateTubeVertexData1Empty(l, options, generateUv2) ==
    LET progress == ProgressOf(options)
        radialSegments == RadialSegmentsOf(options)
        progressDistance == FracMul(progress, FracOfInt(Distance(l)))
    IN  IF FracLess(<<0, 1>>, progressDistance)
        THEN TubeLoop(EmptyData, l, 0, progressDistance, radialSegments, generateUv2)
        ELSE EmptyData

GenerateTubeVertexData1(l, options, generateUv2) ==
    LET progress == ProgressOf(options)
        radialSegments == RadialSegmentsOf(options)
        progressDistance == FracMul(progress, FracOfInt(Distance(l)))
    IN  IF progressDistance[1] = 0 THEN NullData
        ELSE IF FracLess(<<0, 1>>, progressDistance)
        THEN TubeLoop(EmptyData, l, 0, progressDistance, radialSegments, generateUv2)
        ELSE EmptyData

\* ---- rectangular tube, 5 vertices per ring: src/PathRectangleGeometry.js

GenerateRectVertexData5(l, options, generateUv2) ==
    LET progress == ProgressOf(options)
        progressDistance == FracMul(progress, FracOfInt(Distance(l)))
    IN  IF progressDistance[1] = 0 THEN NullData
        ELSE IF FracLess(<<0, 1>>, progressDistance)
        THEN TubeLoop(EmptyData, l, 0, progressDistance, 4, generateUv2)
        ELSE EmptyData

\* ---- rectangular tube, 8 vertices per ring: the bundled PathRectangleGeometry

\* addVertices: 8 positions, normals and uvs, no uv2; count counts vertices
RectAddVertices(d, pathPoint) ==
    [d EXCEPT !.position = @ + 24, !.normal = @ + 24, !.uv = @ + 16,
              !.count = @ + 8, !.rings = Append(@, pathPoint)]

RECURSIVE RectLoop(_, _, _, _)
RectLoop(d, l, i, progressDistance) ==
    IF i >= l.count THEN d
    ELSE LET pathPoint == l.array[i + 1]
         IN  IF FracLess(progressDistance, FracOfInt(pathPoint.dist))
             THEN RectAddVertices(d, TruncatedSample(l, i, progressDistance))
             ELSE RectLoop(RectAddVertices(d, SampleOf(pathPoint)),
                           l, i + 1, progressDistance)

\* the normals pushed for the 8 vertices of a ring, in the order of the
\* vertices A1, B, B1, C, C1, D, D1, A
RectRingNormals == <<"up", "up", "right", "right", "-up", "-up", "-right", "-right">>

\* faces joined at the corners of the rectangle: B with B1, C with C1, ...
RECURSIVE RectIndexLoopCorners(_, _, _)
RectIndexLoopCorners(d, i, positionNum) ==
    IF i >= positionNum THEN d
    ELSE RectIndexLoopCorners(
             IF i + 8 < d.count
             THEN [d EXCEPT !.indices = @ \o
                       <<i + 1, i + 2, i + 10, i + 1, i + 10, i + 9,
                         i + 3, i + 4, i + 12, i + 3, i + 12, i + 11,
                         i + 5, i + 6, i + 14, i + 5, i + 14, i + 13,
                         i + 7, i, i + 8, i + 7, i + 8, i + 15>>]
             ELSE d,
             i + 8, positionNum)

\* for (let i = 0; i < positionNum; i += 8): four faces between ring i and the next
RECURSIVE RectIndexLoop(_, _, _)
RectIndexLoop(d, i, positionNum) ==
    IF i >= positionNum THEN d
    ELSE RectIndexLoop(
             IF i + 8 < d.count
             THEN [d EXCEPT !.indices = @ \o
                       <<i, i + 1, i + 9, i, i + 9, i + 8,
                         i + 2, i + 3, i + 11, i + 2, i + 11, i + 10,
                         i + 4, i + 5, i + 13, i + 4, i + 13, i + 12,
                         i + 6, i + 7, i + 15, i + 6, i + 15, i + 14>>]
             ELSE d,
             i + 8, positionNum)

GenerateRectVertexData8(l, options, generateUv2) ==
    LET progress == ProgressOf(options)
        progressDistance == FracMul(progress, FracOfInt(Distance(l)))
    IN  IF progressDistance[1] = 0 THEN NullData
        ELSE LET looped == IF FracLess(<<0, 1>>, progressDistance)
                           THEN RectLoop(EmptyData, l, 0, progressDistance)
                           ELSE EmptyData
             IN  RectIndexLoop(looped, 0, looped.position \div 3)

\* the generator a geometry class calls
Generate(kind, l, options, generateUv2, leftLonger) ==
    CASE kind = "path" -> GeneratePathVertexData(l, options, generateUv2, leftLonger)
      [] kind = "tube" -> GenerateTubeVertexData1(l, options, generateUv2)
      [] kind = "rect5" -> GenerateRectVertexData5(l, options, generateUv2)
      [] kind = "rect8" -> GenerateRectVertexData8(l, options, generateUv2)

\* ------------------------------------------------------------ PathGeometry
\* A buffer is kept by the length of its array.  drawInfinite stands for the
\* drawRange.count = Infinity a BufferGeometry is born with; updated tells
\* whether update has been called on the geometry.

NoGeom ==
    [kind |-> "none", position |-> 0, normal |-> 0, uv |-> 0, hasUv2 |-> FALSE,
     uv2 |-> 0, index |-> 0, index32 |-> FALSE, indexUpdateCount |-> 0,
     drawCount |-> 0, drawInfinite |-> TRUE, updated |-> FALSE]

InitByMaxVertex(kind, maxVertex, generateUv2) ==
    [NoGeom EXCEPT !.kind = kind,
                   !.position = maxVertex * 3, !.normal = maxVertex * 3,
                   !.uv = maxVertex * 2,
                   !.hasUv2 = generateUv2,
                   !.uv2 = IF generateUv2 THEN maxVertex * 2 ELSE 0,
                   !.drawCount = 0, !.drawInfinite = FALSE,
                   !.index = maxVertex * 3, !.index32 = maxVertex > 65536]

InitByData(kind, l, options, generateUv2, leftLonger) ==
    LET vd == Generate(kind, l, options, generateUv2, leftLonger)
    IN  IF ~vd.null /\ vd.count # 0
        THEN [NoGeom EXCEPT !.kind = kind,
                            !.position = vd.position, !.normal = vd.normal,
                            !.uv = vd.uv,
                            !.hasUv2 = generateUv2,
                            !.uv2 = IF generateUv2 THEN vd.uv2 ELSE 0,
                            !.index = Len(vd.indices),
                            !.index32 = (vd.position \div 3) > 65536]
        ELSE InitByMaxVertex(kind, 2, generateUv2)

\* the while loop of _resizeAttribute / _resizeIndex on an array of length c:
\* a pass that leaves the length as it was is repeated for ever (spin)
RECURSIVE ResizeLoop(_, _)
ResizeLoop(c, len) ==
    IF ~(c < len) THEN [length |-> c, spin |-> FALSE]
    ELSE IF c * 2 = c THEN [length |-> c, spin |-> TRUE]
    ELSE ResizeLoop(c * 2, len)

\* a resize that allocates the required length exactly
ResizeAttributeFit(g, name, len) ==
    [geom |-> [g EXCEPT ![name] = Max(@, len)], spin |-> FALSE]

\* _resizeAttribute(name, len) on geometry g
ResizeAttribute(g, name, len) ==
    LET r == ResizeLoop(g[name], len)
    IN  [geom |-> [g EXCEPT ![name] = r.length], spin |-> r.spin]

\* a resize of the index that reallocates at the required length
ResizeIndexFit(g, len) ==
    [geom |-> [g EXCEPT !.index = len, !.index32 = len > 65535], spin |-> FALSE]

\* a resize of the index that keeps the element type of the array it replaces
ResizeIndexKeepType(g, len) ==
    LET r == ResizeLoop(g.index, len)
    IN  [geom |-> [g EXCEPT !.index = r.length], spin |-> r.spin]

\* _resizeIndex(len): every pass picks the element type anew
ResizeIndex(g, len) ==
    LET r == ResizeLoop(g.index, len)
    IN  [geom |-> [g EXCEPT !.index = r.length,
                            !.index32 = IF r.length # g.index THEN r.length > 65535 ELSE @],
         spin |-> r.spin]

\* _updateAttributes on arrays given by their lengths
WriteBuffers(g, position, normal, uv, uv2, indexLength) ==
    LET p == ResizeAttribute(g, "position", position)
        n == IF p.spin THEN p ELSE ResizeAttribute(p.geom, "normal", normal)
        u == IF n.spin THEN n ELSE ResizeAttribute(n.geom, "uv", uv)
        w == IF u.spin \/ ~g.hasUv2 THEN u ELSE ResizeAttribute(u.geom, "uv2", uv2)
        x == IF w.spin THEN w ELSE ResizeIndex(w.geom, indexLength)
    IN  IF x.spin THEN x
        ELSE [geom |-> [x.geom EXCEPT !.indexUpdateCount = indexLength],
              spin |-> FALSE]

\* _updateAttributes: resize and copy, buffer after buffer; a spinning resize
\* never returns, so what follows it does not happen
UpdateAttributes(g, vd) ==
    WriteBuffers(g, vd.position, vd.normal, vd.uv, vd.uv2, Len(vd.indices))

\* an update that sets drawRange.count to the number of vertices
UpdateGeometryVertices(g, l, options, leftLonger) ==
    LET generateUv2 == g.hasUv2
        vd == Generate(g.kind, l, options, generateUv2, leftLonger)
    IN  IF ~vd.null
        THEN LET a == UpdateAttributes(g, vd)
             IN  IF a.spin THEN [geom |-> a.geom, spin |-> TRUE, vertexData |-> vd]
                 ELSE [geom |-> [a.geom EXCEPT !.drawCount = vd.position \div 3,
                                               !.drawInfinite = FALSE,
                                               !.updated = TRUE],
                       spin |-> FALSE, vertexData |-> vd]
        ELSE [geom |-> [g EXCEPT !.drawCount = 0, !.drawInfinite = FALSE,
                                 !.updated = TRUE],
              spin |-> FALSE, vertexData |-> vd]

\* an update that leaves drawRange.count alone when the generator returns null
UpdateGeometryKeep(g, l, options, leftLonger) ==
    LET generateUv2 == g.hasUv2
        vd == Generate(g.kind, l, options, generateUv2, leftLonger)
    IN  IF ~vd.null
        THEN LET a == UpdateAttributes(g, vd)
             IN  IF a.spin THEN [geom |-> a.geom, spin |-> TRUE, vertexData |-> vd]
                 ELSE [geom |-> [a.geom EXCEPT !.drawCount = vd.count,
                                               !.drawInfinite = FALSE,
                                               !.updated = TRUE],
                       spin |-> FALSE, vertexData |-> vd]
        ELSE [geom |-> [g EXCEPT !.updated = TRUE],
              spin |-> FALSE, vertexData |-> vd]

\* update(pathPointList, options), up to its return or to the loop it hangs in
UpdateGeometry(g, l, options, leftLonger) ==
    LET generateUv2 == g.hasUv2
        vd == Generate(g.kind, l, options, generateUv2, leftLonger)
    IN  IF ~vd.null
        THEN LET a == UpdateAttributes(g, vd)
             IN  IF a.spin THEN [geom |-> a.geom, spin |-> TRUE, vertexData |-> vd]
                 ELSE [geom |-> [a.geom EXCEPT !.drawCount = vd.count,
                                               !.drawInfinite = FALSE,
                                               !.updated = TRUE],
                       spin |-> FALSE, vertexData |-> vd]
        ELSE [geom |-> [g EXCEPT !.drawCount = 0, !.drawInfinite = FALSE,
                                 !.updated = TRUE],
              spin |-> FALSE, vertexData |-> vd]

\* ------------------------------------------------------------------ inputs

KeyPoints == {<<0, 0>>, <<10, 0>>, <<20, 0>>, <<10, 10>>}

\* consecutive key points coincide or lie on a common axis line, so that the
\* length of every edge is a whole number
Aligned(a, b) == a[1] = b[1] \/ a[2] = b[2]

PointLists ==
    {ps \in UNION {[1 .. n -> KeyPoints] : n \in 0 .. MaxPts} :
        \A i \in 1 .. Len(ps) - 1 : Aligned(ps[i], ps[i + 1])}

\* <<cornerRadius, cornerSplit>>
CornerOptions == {<<0, 2>>, <<4, 2>>}

\* the lists a new PathPointList holds after one call of set
FreshLists ==
    {ListSet(MkList(<<>>, 0), ps, c[1], c[2], close) :
        ps \in PointLists, c \in CornerOptions, close \in BOOLEAN}

\* the calls of set made while a geometry is followed: <<points, cornerRadius,
\* cornerSplit, close>>
SceneSets ==
    {<<<<>>, 0, 2, FALSE>>,
     <<<<<<10, 0>>, <<10, 0>>>>, 0, 2, FALSE>>,
     <<<<<<0, 0>>, <<10, 0>>>>, 0, 2, FALSE>>,
     <<<<<<0, 0>>, <<10, 0>>, <<0, 0>>>>, 0, 2, FALSE>>,
     <<<<<<0, 0>>, <<10, 0>>, <<10, 10>>>>, 4, 2, FALSE>>}

ProgressValues == {<<0, 1>>, <<1, 2>>, <<1, 1>>, <<-1, 2>>, <<3, 2>>}

\* a property left undefined, or set to one of the values
Optional(values) == {<<>>} \cup {<<v>> : v \in values}

PathOptions == [progress : Optional(ProgressValues), arrow : Optional(BOOLEAN)]

TubeOptions == [progress : Optional(ProgressValues), radialSegments : Optional({-1, 0, 1, 3})]

RectOptions == [progress : Optional(ProgressValues)]

OptionsOf(kind) ==
    CASE kind = "path" -> PathOptions
      [] kind = "tube" -> TubeOptions
      [] OTHER -> RectOptions

\* the options given to update while a geometry is followed
SceneProgress == {<<>>, <<<<0, 1>>>>, <<<<1, 2>>>>}

SceneOptionsOf(kind) ==
    CASE kind = "path" -> [progress : SceneProgress, arrow : {<<>>, <<FALSE>>}]
      [] kind = "tube" -> [progress : SceneProgress, radialSegments : {<<>>}]
      [] OTHER -> [progress : SceneProgress]

\* the options given to a constructor
DataOptionsOf(kind) ==
    CASE kind = "path" -> [progress : {<<>>}, arrow : {<<>>, <<FALSE>>}]
      [] kind = "tube" -> [progress : {<<>>}, radialSegments : {<<>>}]
      [] OTHER -> [progress : {<<>>}]

Kinds == {"path", "tube", "rect5", "rect8"}

\* the outcomes of sideOffset > 0 at a sharp corner, which only the ribbon has
SidesOf(kind) == IF kind = "path" THEN BOOLEAN ELSE {FALSE}

MaxVertexValues == {0, 4}

\* ----------------------------------------------------------------- actions

TheList == MkList(array, count)

\* the arguments of a generator call
CallOf(kind, options, generateUv2) ==
    [kind |-> kind, options |-> options, generateUv2 |-> generateUv2]

NoCall == CallOf("none", <<>>, FALSE)

\* the arguments of a call of set
SetCallOf(ps, cornerRadius, cornerSplit, close) ==
    [done |-> TRUE, points |-> ps, cornerRadius |-> cornerRadius,
     cornerSplit |-> cornerSplit, close |-> close]

NoSetCall == [SetCallOf(<<>>, 0, 0, FALSE) EXCEPT !.done = FALSE]

\* the array with the closing point pushed onto it
PointsPushed(ps, close) ==
    IF close /\ Len(ps) >= 2 /\ ps[1] # ps[Len(ps)] THEN Append(ps, ps[1]) ELSE ps

\* the caller's array after set: set works on points.slice(0)
PointsAfterSet(ps, close) == ps

Init ==
    /\ callerPoints = <<>>
    /\ setCall = NoSetCall
    /\ array = <<>>
    /\ count = 0
    /\ geom = NoGeom
    /\ call = NoCall
    /\ vertexData = NullData
    /\ pc = "idle"

\* pathPointList.set(points, cornerRadius, cornerSplit, null, close)
Set(ps, cornerRadius, cornerSplit, close) ==
    /\ pc = "idle"
    /\ \E l \in {ListSet(TheList, ps, cornerRadius, cornerSplit, close)} :
           array' = l.array /\ count' = l.count
    /\ callerPoints' = PointsAfterSet(ps, close)
    /\ setCall' = SetCallOf(ps, cornerRadius, cornerSplit, close)
    /\ UNCHANGED <<geom, call, vertexData, pc>>

\* new <Geometry>(maxVertex, generateUv2)
Create(kind, maxVertex, generateUv2) ==
    /\ pc = "idle"
    /\ geom' = InitByMaxVertex(kind, maxVertex, generateUv2)
    /\ call' = NoCall
    /\ vertexData' = NullData
    /\ UNCHANGED <<callerPoints, setCall, array, count, pc>>

\* new <Geometry>({ pathPointList, options }, generateUv2)
CreateFromData(kind, options, generateUv2, leftLonger) ==
    /\ pc = "idle"
    /\ geom' = InitByData(kind, TheList, options, generateUv2, leftLonger)
    /\ call' = NoCall
    /\ vertexData' = NullData
    /\ UNCHANGED <<callerPoints, setCall, array, count, pc>>

\* what update leaves behind
Updated(r) ==
    /\ geom' = r.geom
    /\ vertexData' = r.vertexData
    /\ pc' = IF r.spin THEN "spin" ELSE "idle"

\* geometry.update(pathPointList, options)
Update(options, leftLonger) ==
    /\ pc = "idle"
    /\ geom.kind # "none"
    /\ call' = CallOf(geom.kind, options, geom.hasUv2)
    /\ \E r \in {UpdateGeometry(geom, TheList, options, leftLonger)} : Updated(r)
    /\ UNCHANGED <<callerPoints, setCall, array, count>>

\* one more pass of the growth loop that cannot grow its array
Spin ==
    /\ pc = "spin"
    /\ UNCHANGED vars

Next ==
    \/ \E s \in SceneSets : Set(s[1], s[2], s[3], s[4])
    \/ \E kind \in Kinds, maxVertex \in MaxVertexValues, generateUv2 \in BOOLEAN :
           Create(kind, maxVertex, generateUv2)
    \/ \E kind \in Kinds, generateUv2 \in BOOLEAN :
           \E options \in DataOptionsOf(kind) :
               CreateFromData(kind, options, generateUv2, FALSE)
    \/ \E leftLonger \in SidesOf(geom.kind) : \E options \in SceneOptionsOf(geom.kind) :
           Update(options, leftLonger)
    \/ Spin

Spec == Init /\ [][Next]_vars

\* ---- the generators alone, applied once to a list that one call of set made

EmitInit ==
    /\ \E ps \in PointLists, c \in CornerOptions, close \in BOOLEAN :
           /\ callerPoints = PointsAfterSet(ps, close)
           /\ setCall = SetCallOf(ps, c[1], c[2], close)
           /\ \E l \in {ListSet(MkList(<<>>, 0), ps, c[1], c[2], close)} :
                  array = l.array /\ count = l.count
    /\ geom = NoGeom
    /\ call = NoCall
    /\ vertexData = NullData
    /\ pc = "idle"

Emit(kind, options, generateUv2, leftLonger) ==
    /\ call = NoCall
    /\ call' = CallOf(kind, options, generateUv2)
    /\ vertexData' = Generate(kind, TheList, options, generateUv2, leftLonger)
    /\ UNCHANGED <<callerPoints, setCall, array, count, geom, pc>>

EmitNext ==
    \E kind \in Kinds, generateUv2 \in BOOLEAN, leftLonger \in BOOLEAN :
        \E options \in OptionsOf(kind) : Emit(kind, options, generateUv2, leftLonger)

EmitSpec == EmitInit /\ [][EmitNext]_vars

\* ---- the index of a geometry allocated by capacity, under _resizeIndex alone

\* maxVertex, about the lengths at which the element type changes
CapacityValues == {1, 4, 10922, 10923, 20000, 21845, 21846, 65536, 65537}

\* indices.length of an emission
IndexLengths == {6, 100, 65535, 65536, 100000, 400000}

\* this._resizeIndex(indices.length), the index step of _updateAttributes
ResizeIndexStep(len) ==
    /\ pc = "idle"
    /\ geom.kind # "none"
    /\ \E r \in {ResizeIndex(geom, len)} :
           geom' = r.geom /\ pc' = IF r.spin THEN "spin" ELSE "idle"
    /\ UNCHANGED <<callerPoints, setCall, array, count, call, vertexData>>

ResizeNext ==
    \/ \E kind \in Kinds, maxVertex \in CapacityValues, generateUv2 \in BOOLEAN :
           Create(kind, maxVertex, generateUv2)
    \/ \E len \in IndexLengths : ResizeIndexStep(len)

ResizeSpec == Init /\ [][ResizeNext]_vars

\* ---- updates with the emissions of long paths, the arrays by their lengths

\* the options object {}
DefaultOptions(kind) ==
    CASE kind = "path" -> [progress |-> <<>>, arrow |-> <<>>]
      [] kind = "tube" -> [progress |-> <<>>, radialSegments |-> <<>>]
      [] OTHER -> [progress |-> <<>>]

\* what a generator returns, called with the options {}, for a path of R >= 2
\* samples none of which is sharp: R rings (and the arrow head of the ribbon);
\* the arrays by their lengths, indices by its length and its largest value
LongEmission(kind, R, generateUv2) ==
    LET vertices == CASE kind = "path" -> 2 * R + 3
                      [] kind = "tube" -> 9 * R
                      [] kind = "rect5" -> 5 * R
                      [] OTHER -> 8 * R
        indexLength == CASE kind = "path" -> 6 * (R - 1) + 3
                         [] kind = "tube" -> 48 * (R - 1)
                         [] OTHER -> 24 * (R - 1)
    IN  [null |-> FALSE,
         position |-> 3 * vertices, normal |-> 3 * vertices, uv |-> 2 * vertices,
         uv2 |-> IF generateUv2 /\ kind # "rect8" THEN 2 * vertices ELSE 0,
         indexLength |-> indexLength, maxIndex |-> vertices - 1,
         count |-> IF kind = "rect8" THEN vertices ELSE indexLength]

\* pathPointList.count of a long path
RingCounts == {2, 8192, 8193, 21846, 32766, 32767}

\* geometry.update(pathPointList, {}) on a path of R samples, none sharp
LongUpdate(R) ==
    /\ pc = "idle"
    /\ geom.kind # "none"
    /\ call' = CallOf(geom.kind, DefaultOptions(geom.kind), geom.hasUv2)
    /\ \E e \in {LongEmission(geom.kind, R, geom.hasUv2)} :
           /\ vertexData' = e
           /\ \E a \in {WriteBuffers(geom, e.position, e.normal, e.uv, e.uv2,
                                      e.indexLength)} :
                  /\ geom' = IF a.spin THEN a.geom
                             ELSE [a.geom EXCEPT !.drawCount = e.count,
                                                 !.drawInfinite = FALSE,
                                                 !.updated = TRUE]
                  /\ pc' = IF a.spin THEN "spin" ELSE "idle"
    /\ UNCHANGED <<callerPoints, setCall, array, count>>

LongNext ==
    \/ \E kind \in Kinds, maxVertex \in CapacityValues, generateUv2 \in BOOLEAN :
           Create(kind, maxVertex, generateUv2)
    \/ \E R \in RingCounts : LongUpdate(R)

LongSpec == Init /\ [][LongNext]_vars

\* ---- set alone: any call of set, made on a new list or after the scene's

\* <<cornerRadius, cornerSplit>>
SetCornerOptions == CornerOptions \cup {<<4, 0>>, <<-1, 2>>, <<2, 3>>}

SetNext ==
    \E ps \in PointLists, c \in SetCornerOptions, close \in BOOLEAN :
        /\ \/ ~setCall.done
           \/ <<setCall.points, setCall.cornerRadius, setCall.cornerSplit,
                setCall.close>> \in SceneSets
        /\ Set(ps, c[1], c[2], close)

SetSpec == Init /\ [][SetNext]_vars

\* ------------------------------------------------------------------ claims

\* a point list too short for a path, with the other arguments of set
ShortSets ==
    {<<ps, c[1], c[2], close>> :
        ps \in {<<>>} \cup {<<p>> : p \in KeyPoints}, c \in CornerOptions, close \in BOOLEAN}

\* C1: whatever earlier calls of set left in the list, set with fewer than 2
\* points returns with count = 0 and distance() = 0, and an update of the
\* geometry at hand that follows it returns and leaves drawRange.count = 0.
C1_ShortSetEmpties ==
    \A s \in ShortSets :
        LET l == ListSet(TheList, s[1], s[2], s[3], s[4])
        IN  /\ l.count = 0
            /\ Distance(l) = 0
            /\ geom.kind # "none" =>
                   \A options \in SceneOptionsOf(geom.kind), leftLonger \in BOOLEAN :
                       LET r == UpdateGeometry(geom, l, options, leftLonger)
                       IN  ~r.spin /\ ~r.geom.drawInfinite /\ r.geom.drawCount = 0

\* C1 happens: a list emptied by a short set after it held samples, and a
\* geometry that had drawn something updated on it with the default progress
C1_Witness ==
    /\ count = 0 /\ Len(array) > 0
    /\ pc = "idle" /\ call # NoCall /\ call.options.progress = <<>>
    /\ vertexData.null
    /\ geom.indexUpdateCount > 0 /\ geom.drawCount = 0

\* c * 2^k for the smallest k with c * 2^k >= len
GrownCapacity(c, len) ==
    c * 2 ^ (CHOOSE k \in 0 .. len :
                 c * 2 ^ k >= len /\ \A j \in 0 .. k - 1 : c * 2 ^ j < len)

\* C2: an update that returns with an emission leaves every backing array at
\* the capacity c * 2^k, c its capacity before and k the smallest number with
\* c * 2^k >= the emitted length (k = 0: an array large enough is kept).
C2_GrowthByDoubling ==
    [][(call' # NoCall /\ array' = array /\ count' = count /\ pc' = "idle"
            /\ ~vertexData'.null)
        => /\ geom'.position = GrownCapacity(geom.position, vertexData'.position)
           /\ geom'.normal = GrownCapacity(geom.normal, vertexData'.normal)
           /\ geom'.uv = GrownCapacity(geom.uv, vertexData'.uv)
           /\ geom'.uv2 = IF geom.hasUv2 THEN GrownCapacity(geom.uv2, vertexData'.uv2)
                          ELSE geom.uv2
           /\ geom'.index = GrownCapacity(geom.index, Len(vertexData'.indices))]_vars

\* C2 happens: a geometry made for 4 vertices holds 16 after an emission of 10
C2_Witness ==
    /\ pc = "idle" /\ call # NoCall
    /\ geom.kind = "rect5"
    /\ vertexData.position = 10 * 3
    /\ geom.position = 16 * 3 /\ geom.normal = 16 * 3 /\ geom.uv = 16 * 2
    /\ geom.index = 24

\* C3 as stated: after an update drawRange.count is the number of vertices
\* emitted, position.length / 3, and 0 when nothing was emitted.
C3_DrawCountIsVertexCount ==
    (pc = "idle" /\ call # NoCall)
        => /\ ~geom.drawInfinite
           /\ geom.drawCount = vertexData.position \div 3

\* C3 amended: after an update drawRange.count is 0 when the generator returned
\* null and else the count the generator returned: the number of indices
\* emitted for the ribbon, the circular tube and the 5-vertex rectangle, the
\* number of vertices emitted for the 8-vertex rectangle.
C3_DrawCountIsGeneratorCount ==
    (pc = "idle" /\ call # NoCall)
        => /\ ~geom.drawInfinite
           /\ geom.drawCount =
                  IF vertexData.null THEN 0
                  ELSE IF geom.kind = "rect8" THEN vertexData.position \div 3
                  ELSE Len(vertexData.indices)

\* C3 happens: a ribbon of 4 vertices and 6 indices drawn with count 6
C3_Witness ==
    /\ pc = "idle" /\ call # NoCall
    /\ geom.kind = "path"
    /\ vertexData.position = 4 * 3 /\ Len(vertexData.indices) = 6
    /\ geom.drawCount = 6

\* C4: the growth loops of update terminate, and after the update every
\* backing array is at least as long as the array emitted into it.
C4_GrowthTerminates ==
    /\ pc # "spin"
    /\ (call # NoCall /\ ~vertexData.null)
           => /\ geom.position >= vertexData.position
              /\ geom.normal >= vertexData.normal
              /\ geom.uv >= vertexData.uv
              /\ geom.hasUv2 => geom.uv2 >= vertexData.uv2
              /\ geom.index >= Len(vertexData.indices)

\* C5: no update makes a backing array of its geometry shorter.
C5_CapacityNeverDecreases ==
    [][(call' # NoCall /\ array' = array /\ count' = count)
        => /\ geom'.position >= geom.position
           /\ geom'.normal >= geom.normal
           /\ geom'.uv >= geom.uv
           /\ geom'.uv2 >= geom.uv2
           /\ geom'.index >= geom.index]_vars

\* C5 happens: a geometry made for 4 vertices that grew to 32 for an emission
\* of more than 16 and was then updated with one of 10
C5_Witness ==
    /\ pc = "idle" /\ call # NoCall
    /\ geom.kind = "rect5"
    /\ geom.position = 32 * 3
    /\ vertexData.position = 10 * 3

\* C6: after an update drawRange.count is at most the number of indices that
\* update emitted, so that the draw range holds none of the index entries an
\* earlier update left behind.
C6_DrawRangeWithinEmission ==
    (pc = "idle" /\ call # NoCall)
        => /\ ~geom.drawInfinite
           /\ geom.drawCount <= Len(vertexData.indices)
           /\ geom.drawCount <= geom.indexUpdateCount

\* C6 happens: an 8-vertex rectangle of two rings (16 vertices, 24 indices)
\* in a geometry whose index holds more than 24 entries, the rest of them
\* left by an earlier update
C6_Witness ==
    /\ pc = "idle" /\ call # NoCall
    /\ geom.kind = "rect8"
    /\ Len(vertexData.indices) = 24 /\ geom.drawCount = 16
    /\ geom.index > 24

\* C7 as stated: on a path of positive length an update with progress = 0 (the
\* ribbon with no other option set) emits no vertex and no index and leaves
\* drawRange.count = 0.
C7_ProgressZeroEmitsNothing ==
    [][(call' # NoCall /\ array' = array /\ count' = count
            /\ Distance(TheList) > 0
            /\ call'.options.progress = <<<<0, 1>>>>
            /\ (call'.kind = "path" => call'.options.arrow = <<>>))
        => /\ vertexData'.position = 0
           /\ vertexData'.indices = <<>>
           /\ pc' = "idle"
           /\ geom'.drawCount = 0]_vars

\* C7 amended: on a path of positive length and with progress = 0 the circular
\* tube and both rectangles return null and update leaves drawRange.count = 0;
\* the ribbon emits no ring, but with arrow enabled (the default) it emits the
\* arrow head: 3 vertices and 3 indices, drawn with drawRange.count = 3 once
\* update returns; with arrow = false it emits empty arrays, drawn with 0.
C7_ProgressZeroLeavesArrow ==
    [][(call' # NoCall /\ array' = array /\ count' = count
            /\ Distance(TheList) > 0
            /\ call'.options.progress = <<<<0, 1>>>>)
        => IF call'.kind # "path"
           THEN vertexData'.null /\ pc' = "idle" /\ geom'.drawCount = 0
           ELSE /\ ~vertexData'.null
                /\ vertexData'.rings = <<>>
                /\ IF call'.options.arrow = <<FALSE>>
                   THEN /\ vertexData'.position = 0
                        /\ vertexData'.indices = <<>>
                        /\ pc' = "idle"
                        /\ geom'.drawCount = 0
                   ELSE /\ vertexData'.position = 3 * 3
                        /\ vertexData'.indices = <<2, 0, 1>>
                        /\ pc' = "idle" => geom'.drawCount = 3]_vars

\* C7 happens: a ribbon updated with progress = 0 and no other option on a
\* path of positive length, drawn with the 3 indices of its arrow head
C7_Witness ==
    /\ pc = "idle"
    /\ call = CallOf("path", [progress |-> <<<<0, 1>>>>, arrow |-> <<>>], geom.hasUv2)
    /\ Distance(TheList) > 0
    /\ vertexData = Generate("path", TheList, call.options, geom.hasUv2, FALSE)
    /\ vertexData.position = 3 * 3
    /\ geom.drawCount = 3

\* the number of samples of the list in hand that lie within progressDistance
Within(progressDistance) ==
    Cardinality({i \in 1 .. count : ~FracLess(progressDistance, FracOfInt(array[i].dist))})

\* C8: with progressDistance = progress * distance() > 0 an emitter makes one
\* ring for every sample with dist <= progressDistance, in order; if a sample
\* lies beyond, one more ring follows, at dist = progressDistance and on the
\* segment from the last sample within to the first beyond, and no other; with
\* progress = 1 the rings are the stored samples.  progress = 1/2 on a 2-point
\* path of length 10 ends with a ring at dist 5.
C8_RingSelection ==
    LET progressDistance == FracMul(ProgressOf(call.options), FracOfInt(Distance(TheList)))
        n == Within(progressDistance)
        rings == vertexData.rings
    IN  (call # NoCall /\ FracLess(<<0, 1>>, progressDistance))
            => /\ ~vertexData.null
               /\ \A i \in 1 .. n : rings[i] = SampleOf(array[i])
               /\ IF n < count
                  THEN /\ Len(rings) = n + 1
                       /\ rings[n + 1].dist = progressDistance
                       /\ \A k \in 1 .. 2 :
                              /\ Min(array[n].pos[k], array[n + 1].pos[k]) <= rings[n + 1].pos[k]
                              /\ rings[n + 1].pos[k] <= Max(array[n].pos[k], array[n + 1].pos[k])
                  ELSE Len(rings) = n
               /\ ProgressOf(call.options) = <<1, 1>>
                      => Len(rings) = count /\ rings[count] = SampleOf(array[count])
               /\ (ProgressOf(call.options) = <<1, 2>> /\ count = 2 /\ Distance(TheList) = 10)
                      => rings[Len(rings)].dist = <<5, 1>>

\* C8 happens: a path cut with progress = 1/2 inside a segment that is not
\* its first, the last ring interpolated at progressDistance
C8_Witness ==
    LET progressDistance == FracMul(ProgressOf(call.options), FracOfInt(Distance(TheList)))
        n == Within(progressDistance)
        rings == vertexData.rings
    IN  /\ call # NoCall /\ call.options.progress = <<<<1, 2>>>>
        /\ 2 <= n /\ n < count
        /\ FracLess(FracOfInt(array[n].dist), progressDistance)
        /\ Len(rings) = n + 1
        /\ rings[n + 1].dist = progressDistance
        /\ rings[n + 1].pos # array[n].pos /\ rings[n + 1].pos # array[n + 1].pos

\* C9: a circular tube of R >= 1 rings and s radial segments has R * (s + 1)
\* vertices and 6 * s * (R - 1) indices; 18 and 48 for 8 segments and 2 rings.
C9_TubeCounts ==
    LET R == Len(vertexData.rings)
        s == RadialSegmentsOf(call.options)
    IN  (call # NoCall /\ call.kind = "tube" /\ ~vertexData.null /\ R >= 1)
            => /\ vertexData.position = 3 * (R * (s + 1))
               /\ vertexData.verticesCount = R * (s + 1)
               /\ Len(vertexData.indices) = 6 * s * (R - 1)
               /\ (s = 8 /\ R = 2)
                      => vertexData.position = 3 * 18 /\ Len(vertexData.indices) = 48

\* C9 happens: a tube of 3 segments and 3 rings
C9_Witness ==
    /\ call # NoCall /\ call.kind = "tube"
    /\ call.options.radialSegments = <<3>>
    /\ Len(vertexData.rings) = 3
    /\ vertexData.position = 3 * 12 /\ Len(vertexData.indices) = 36

\* C10 as stated: the ribbon with no option set but side and width, on two
\* points 10 apart, has 4 vertices and 6 indices.
C10_RibbonFourVertices ==
    (call = CallOf("path", [progress |-> <<>>, arrow |-> <<>>], call.generateUv2)
         /\ count = 2 /\ Distance(TheList) = 10)
        => vertexData.position = 4 * 3 /\ Len(vertexData.indices) = 6

\* C10 amended: the ribbon on two points 10 apart has 4 vertices and 6
\* indices when arrow = false; with no option set but side and width the arrow
\* head comes with it: 7 vertices and 9 indices.
C10_RibbonWithArrow ==
    (call # NoCall /\ call.kind = "path" /\ call.options.progress = <<>>
         /\ count = 2 /\ Distance(TheList) = 10)
        => IF call.options.arrow = <<FALSE>>
           THEN /\ vertexData.position = 4 * 3
                /\ vertexData.indices = <<2, 0, 1, 2, 1, 3>>
           ELSE /\ vertexData.position = 7 * 3
                /\ vertexData.indices = <<2, 0, 1, 2, 1, 3, 6, 4, 5>>

\* C10 happens: the ribbon of two points 10 apart, no option set
C10_Witness ==
    /\ call = CallOf("path", [progress |-> <<>>, arrow |-> <<>>], FALSE)
    /\ count = 2 /\ Distance(TheList) = 10
    /\ array[1].pos = <<0, 0>> /\ array[2].pos = <<10, 0>>
    /\ vertexData.position = 7 * 3 /\ Len(vertexData.indices) = 9

\* C11: in the circular tube every supplied radialSegments below 2 (1, 0 and
\* the negative ones) is treated as 2: each ring of the emission has exactly
\* 3 vertices.
C11_SmallRadialSegmentsGiveThreeVertices ==
    (/\ call.kind = "tube"
     /\ Has(call.options, "radialSegments")
     /\ call.options.radialSegments[1] < 2
     /\ ~vertexData.null)
        => vertexData.position = 3 * 3 * Len(vertexData.rings)

\* the samples of a list that count covers
Live(l) == SubSeq(l.array, 1, l.count)

\* the point list with its first point repeated at the end
Closed(ps) == IF ps[1] # ps[Len(ps)] THEN Append(ps, ps[1]) ELSE ps

Rounded(sc) == sc.cornerRadius > 0 /\ sc.cornerSplit > 0

\* the sum of the lengths of the steps between the first n samples
RECURSIVE StepSum(_, _)
StepSum(arr, n) ==
    IF n < 2 THEN 0
    ELSE StepSum(arr, n - 1) + VLength(VSub(arr[n].pos, arr[n - 1].pos))

\* C13: after a set of at least 2 points the dist of the first sample is 0 and
\* dist never decreases along the samples; on a path without rounding every
\* dist is the dist before it plus the length of the step between the two
\* positions, and distance() is the sum of the lengths of all steps.
C13_DistAccumulates ==
    (setCall.done /\ Len(setCall.points) >= 2) =>
        /\ count >= 2
        /\ array[1].dist = 0
        /\ \A i \in 1 .. count - 1 : array[i].dist <= array[i + 1].dist
        /\ ~Rounded(setCall) =>
               /\ \A i \in 1 .. count - 1 :
                      array[i + 1].dist
                          = array[i].dist + VLength(VSub(array[i + 1].pos, array[i].pos))
               /\ Distance(TheList) = StepSum(array, count)

\* an open path of three different points without rounding: dist grows twice
C13_Witness ==
    /\ setCall.done /\ ~setCall.close /\ setCall.cornerRadius = 0
    /\ count = 3
    /\ 0 < array[2].dist /\ array[2].dist < array[3].dist
    /\ Distance(TheList) = array[3].dist

\* the maxVertex a geometry was allocated with, while only its index is resized
AllocatedVertices == geom.position \div 3

\* C14 as stated: the index of a geometry allocated by capacity is 16-bit
\* exactly when maxVertices <= 65536, and that width is the one in use after
\* any sequence of resizes.
C14_WidthFixedAtAllocation ==
    geom.kind # "none" => (geom.index32 <=> AllocatedVertices > 65536)

\* C14 amended: the index is allocated 16-bit exactly when maxVertices <=
\* 65536; a 32-bit index stays 32-bit; a 16-bit index is 16-bit until a
\* doubling gives it more than 65535 elements, and is 32-bit from then on.
C14_WidthFollowsGrowth ==
    geom.kind # "none" =>
        /\ AllocatedVertices > 65536 => geom.index32
        /\ AllocatedVertices <= 65536 =>
               (geom.index32 <=> (geom.index # AllocatedVertices * 3
                                     /\ geom.index > 65535))

\* a 16-bit index of 60000 elements doubled into a 32-bit one
C14_Witness ==
    /\ AllocatedVertices = 20000
    /\ geom.index = 120000
    /\ geom.index32

\* C15: on a list whose total distance is 0, an empty one or one with all its
\* samples at dist 0, every generator returns null whatever its options, and
\* update returns with drawRange.count = 0 and every backing array as it was.
C15_ZeroDistanceEmitsNothing ==
    Distance(TheList) = 0 =>
        /\ \A kind \in Kinds, generateUv2 \in BOOLEAN, leftLonger \in BOOLEAN :
               \A options \in OptionsOf(kind) :
                   Generate(kind, TheList, options, generateUv2, leftLonger).null
        /\ geom.kind # "none" =>
               \A options \in OptionsOf(geom.kind), leftLonger \in BOOLEAN :
                   UpdateGeometry(geom, TheList, options, leftLonger)
                       = [geom |-> [geom EXCEPT !.drawCount = 0, !.drawInfinite = FALSE,
                                               !.updated = TRUE],
                          spin |-> FALSE, vertexData |-> NullData]

\* C15 happens: a geometry that had drawn something, updated on a path of two
\* samples at the same place
C15_Witness ==
    /\ count = 2 /\ array[1].pos = array[2].pos /\ Distance(TheList) = 0
    /\ pc = "idle" /\ call # NoCall
    /\ vertexData.null
    /\ geom.indexUpdateCount > 0 /\ geom.position > 0
    /\ geom.drawCount = 0 /\ ~geom.drawInfinite

\* C16: with generateUv2 every generator, the ribbon, the circular tube and
\* the two rectangular tubes, returns a uv2 array with one (u, v) pair for
\* every vertex it emitted.
C16_Uv2PairPerVertex ==
    (call # NoCall /\ call.generateUv2 /\ ~vertexData.null)
        => vertexData.uv2 = 2 * (vertexData.position \div 3)

CurveEnd(ps, i, cornerRadius) ==
    GetCornerBezierCurve(ps[i - 1], ps[i], ps[i + 1], cornerRadius, i = 2)[3]

\* C18: an open path of k >= 2 key points is stored as exactly k samples when
\* it is not rounded (cornerRadius <= 0 or cornerSplit <= 0).  With rounding
\* and n = cornerSplit each of the k - 2 interior key points gives n samples,
\* and one more when the last point of its curve is not the key point after
\* it, so that count lies between 2 + (k - 2) n and 2 + (k - 2) (n + 1).
C18_OpenPathCount ==
    (setCall.done /\ ~setCall.close /\ Len(setCall.points) >= 2) =>
        LET ps == setCall.points
            k == Len(ps)
            n == setCall.cornerSplit
            more == {i \in 2 .. k - 1 : CurveEnd(ps, i, setCall.cornerRadius) # ps[i + 1]}
        IN  IF Rounded(setCall)
            THEN /\ count = 2 + (k - 2) * n + Cardinality(more)
                 /\ 2 + (k - 2) * n <= count
                 /\ count <= 2 + (k - 2) * (n + 1)
            ELSE count = k

\* C18 happens: three key points, the corner rounded by 3 samples and one more
C18_Witness ==
    /\ setCall.done /\ ~setCall.close
    /\ Len(setCall.points) = 3
    /\ setCall.cornerRadius = 2 /\ setCall.cornerSplit = 3
    /\ count = 6

\* C19: only hard corners are sharp.  After a set of at least 2 points the
\* first sample is not sharp, nor is the last one of an open path; after a
\* set with rounding no sample below count is sharp, whatever earlier calls
\* of set stored in the PathPoint objects it uses again.
C19_OnlyHardCornersSharp ==
    (setCall.done /\ Len(setCall.points) >= 2) =>
        /\ ~array[1].sharp
        /\ ~setCall.close => ~array[count].sharp
        /\ Rounded(setCall) => \A i \in 1 .. count : ~array[i].sharp

\* C19 happens: a right angle rounded into samples none of which is sharp
C19_Witness ==
    /\ setCall.done /\ ~setCall.close /\ Rounded(setCall)
    /\ setCall.points = <<<<0, 0>>, <<10, 0>>, <<10, 10>>>>
    /\ count = 2 + setCall.cornerSplit + 1
    /\ \A i \in 1 .. count : ~array[i].sharp

\* the vertices of the f-th face (two triangles) of an index sequence
FaceVertices(indices, f) == {indices[6 * f + j] : j \in 1 .. 6}

\* C20: for R >= 1 rings the 5-vertex rectangle emits 5 R vertices and
\* 24 (R - 1) indices, the 8-vertex rectangle 8 R vertices and 24 (R - 1)
\* indices; every face of the 8-vertex rectangle joins, in two rings that
\* follow each other, the two vertices of each ring that carry the face's
\* normal, and the four faces of a ring have the normals up, right, -up and
\* -right.
C20_RectangleCounts ==
    LET R == Len(vertexData.rings)
        indices == vertexData.indices
    IN  (call # NoCall /\ call.kind \in {"rect5", "rect8"} /\ ~vertexData.null /\ R >= 1)
            => /\ vertexData.position = 3 * R * (IF call.kind = "rect5" THEN 5 ELSE 8)
               /\ Len(indices) = 24 * (R - 1)
               /\ call.kind = "rect8" =>
                      \A f \in 0 .. 4 * (R - 1) - 1 :
                          LET vs == FaceVertices(indices, f)
                              ring == f \div 4
                          IN  /\ Cardinality(vs) = 4
                              /\ {v \div 8 : v \in vs} = {ring, ring + 1}
                              /\ {RectRingNormals[(v % 8) + 1] : v \in vs}
                                     = {<<"up", "right", "-up", "-right">>[(f % 4) + 1]}

\* C20 happens: an 8-vertex rectangle of 3 rings, 24 vertices and 48 indices
C20_Witness ==
    /\ call # NoCall /\ call.kind = "rect8"
    /\ Len(vertexData.rings) = 3
    /\ vertexData.position = 3 * 24
    /\ Len(vertexData.indices) = 48

\* C21: for each of the four generators, after an update that emitted
\* geometry drawRange.count is the number of indices of that emission, so
\* that every triangle emitted is drawn.
C21_DrawCountIsIndexCount ==
    (pc = "idle" /\ call # NoCall /\ ~vertexData.null)
        => /\ ~geom.drawInfinite
           /\ geom.drawCount = Len(vertexData.indices)

\* C22: every index a generator emits refers to a vertex it emitted: each
\* value of indices is >= 0 and < position.length / 3, for every list of
\* samples, sharp or not, every progress, arrow and side of the longer edge.
C22_IndicesWithinVertices ==
    (call # NoCall /\ ~vertexData.null) =>
        \A j \in 1 .. Len(vertexData.indices) :
            /\ 0 <= vertexData.indices[j]
            /\ vertexData.indices[j] < vertexData.position \div 3

\* C22 happens: a ribbon with the fan of a sharp corner and the arrow head,
\* whose indices reach from the first vertex to the last
C22_Witness ==
    /\ call # NoCall /\ call.kind = "path" /\ ~vertexData.null
    /\ \E r \in 2 .. Len(vertexData.rings) : vertexData.rings[r].sharp
    /\ call.options.arrow # <<FALSE>>
    /\ \E j \in 1 .. Len(vertexData.indices) : vertexData.indices[j] = 0
    /\ \E j \in 1 .. Len(vertexData.indices) :
           vertexData.indices[j] = vertexData.position \div 3 - 1

\* the largest value of a sequence of indices, -1 if it is empty
MaxIndex(indices) ==
    IF indices = <<>> THEN -1
    ELSE CHOOSE m \in {indices[j] : j \in 1 .. Len(indices)} :
             \A j \in 1 .. Len(indices) : indices[j] <= m

\* LongEmission is what the generators return for the paths of that kind
LongEmissionAgrees ==
    (/\ call # NoCall /\ ~vertexData.null
     /\ call.options = DefaultOptions(call.kind)
     /\ \A i \in 1 .. count : ~array[i].sharp)
        => LET e == LongEmission(call.kind, count, call.generateUv2)
           IN  /\ vertexData.position = e.position
               /\ vertexData.normal = e.normal
               /\ vertexData.uv = e.uv
               /\ vertexData.uv2 = e.uv2
               /\ Len(vertexData.indices) = e.indexLength
               /\ MaxIndex(vertexData.indices) = e.maxIndex
               /\ vertexData.count = e.count

\* C23: after any sequence of updates every value written into the index
\* buffer fits its element type: while the index is 16-bit every index of the
\* emission written into it is below 65536, also when the position buffer
\* has grown past 65536 vertices and the index buffer did not have to grow.
C23_IndicesFitElementType ==
    (/\ pc = "idle" /\ call # NoCall /\ ~vertexData.null
     /\ vertexData.indexLength > 0
     /\ ~geom.index32)
        => vertexData.maxIndex < 65536

\* some sample of the list in hand lies beyond progressDistance
Beyond(progressDistance) ==
    \E i \in 1 .. count : FracLess(progressDistance, FracOfInt(array[i].dist))

\* the index i (0-based) at which the progress loop meets the first sample
\* with dist > progressDistance
StopIndex(progressDistance) ==
    CHOOSE i \in 0 .. count - 1 :
        /\ FracLess(progressDistance, FracOfInt(array[i + 1].dist))
        /\ \A j \in 0 .. i - 1 : ~FracLess(progressDistance, FracOfInt(array[j + 1].dist))

\* C24: when a generator builds the interpolated sample, the sample it stops
\* at has index i >= 1, array[i - 1] and array[i] differ in dist, and alpha
\* lies in [0, 1) and leads from the dist of array[i - 1] to progressDistance;
\* this holds on open and closed paths.  For every other progress, negative
\* ones and those of 1 and more included, no sample is interpolated: every
\* ring is a stored sample.
C24_InterpolationWellDefined ==
    LET progressDistance == FracMul(ProgressOf(call.options), FracOfInt(Distance(TheList)))
        rings == vertexData.rings
    IN  (call # NoCall /\ ~vertexData.null) =>
            IF FracLess(<<0, 1>>, progressDistance) /\ Beyond(progressDistance)
            THEN LET i == StopIndex(progressDistance)
                 IN  /\ i >= 1
                     /\ array[i + 1].dist # array[i].dist
                     /\ LET alpha == AlphaOf(progressDistance, array[i], array[i + 1])
                        IN  /\ 0 <= alpha[1] /\ alpha[1] < alpha[2]
                            /\ FracAdd(FracOfInt(array[i].dist),
                                       FracMul(alpha,
                                               FracOfInt(array[i + 1].dist - array[i].dist)))
                                   = progressDistance
                            /\ Len(rings) = i + 1
                            /\ rings[i + 1] = LerpPathPoints(array[i], array[i + 1], alpha)
            ELSE \A r \in 1 .. Len(rings) : rings[r] = SampleOf(array[r])

\* C24 happens: a closed path cut exactly at a sample that is not its first,
\* the interpolated sample built with alpha = 0
C24_Witness ==
    LET progressDistance == FracMul(ProgressOf(call.options), FracOfInt(Distance(TheList)))
    IN  /\ call # NoCall /\ ~vertexData.null
        /\ setCall.close
        /\ FracLess(<<0, 1>>, progressDistance) /\ Beyond(progressDistance)
        /\ StopIndex(progressDistance) >= 2
        /\ AlphaOf(progressDistance, array[StopIndex(progressDistance)],
                   array[StopIndex(progressDistance) + 1]) = <<0, 1>>
        /\ Len(vertexData.rings) = StopIndex(progressDistance) + 1

====
